---- MODULE Spec2Model ----
(***************************************************************************)
(* Blob transfer operations of the docker registry client                  *)
(* (registry/blob.go in its two versions: the one with UploadChunkedBlob   *)
(* and completeChunkedUploadBlob, and the one with                         *)
(* UploadBlobToArtifactory).                                               *)
(*                                                                         *)
(* A caller invokes one operation at a time; every HTTP exchange of an     *)
(* operation is one step.  The HTTP executor (registry.Client) and the     *)
(* registry behind it are the environment: the executor replays a request  *)
(* after an authentication challenge, reports statuses >= 400 as wrapped   *)
(* HTTP-status errors and may fail with a transport error; the registry    *)
(* answers by the distribution protocol or, when it misbehaves, with some  *)
(* other status.                                                           *)
(***************************************************************************)
EXTENDS Integers, Sequences, FiniteSets, TLC

\* ------------------------------------------------------------------ bounds
\* Calls a caller makes one after the other.
MaxCalls == 2
\* Events of a run that deviate from the plain protocol run (an
\* authentication challenge, an off-protocol status, a transport error).
MaxFaults == 1

\* ----------------------------------------------------------------- domains
Callers == {"a", "b"}
\* The callers that run under Spec (one call at a time).
SeqCallers == {"a"}
Repos == {"alpine", "busybox"}
Contents == {<<1>>, <<2, 1>>}
\* Text of the body a registry sends with a status that is not a success.
ErrText == <<7>>

\* The digest a registry computes of a byte string (algorithm-tagged).
Hash(data) == [algorithm |-> "sha256", hex |-> data]
Digests == {Hash(c) : c \in Contents}

Ops == {"DownloadBlob", "UploadChunkedBlob", "UploadBlobToArtifactory",
        "UploadBlob", "HasBlob", "BlobMetadata"}
UploadOps == {"UploadChunkedBlob", "UploadBlobToArtifactory", "UploadBlob"}

\* ------------------------------------------------------------------ values
\* URLs.  endpoint is "uploads" (/v2/<repo>/blobs/uploads/), "blob"
\* (/v2/<repo>/blobs/<digest>), "session" (the location of an upload
\* session) or "" (the empty URL); query maps parameter names to values.
NoDigest == [algorithm |-> "", hex |-> <<>>]
NewURL(endpoint, repo, digest, session, query) ==
    [endpoint |-> endpoint, repo |-> repo, digest |-> digest,
     session |-> session, query |-> query]
NoQuery == [k \in {} |-> 0]
EmptyURL == NewURL("", "", NoDigest, 0, NoQuery)

\* error values; NoErr is Go's nil error
NewErr(kind, cause, status, body, url) ==
    [kind |-> kind, cause |-> cause, status |-> status, body |-> body, url |-> url]
NoErr == NewErr("nil", "", 0, <<>>, EmptyURL)
\* an error that is not a *url.Error
PlainErr == NewErr("plain", "", 0, <<>>, EmptyURL)
\* *url.Error whose Err is a network failure
UrlNetErr == NewErr("url", "net", 0, <<>>, EmptyURL)
\* *url.Error whose Err is *HttpStatusError{Response, Body}
UrlHttpErr(status, body) == NewErr("url", "http", status, body, EmptyURL)

\* The Location header of a response: text that parses to url, or text
\* that does not parse.
NewLocation(url) == [wellformed |-> TRUE, url |-> url]
NoLocation == NewLocation(EmptyURL)
BadLocation == [wellformed |-> FALSE, url |-> EmptyURL]

\* *http.Response; NoResp is the nil response
NewResp(status, location, body, contentLength) ==
    [present |-> TRUE, status |-> status, location |-> location, body |-> body,
     contentLength |-> contentLength]
NoResp == [present |-> FALSE, status |-> 0, location |-> NoLocation, body |-> <<>>,
           contentLength |-> 0]

\* The GetBody slot of a request, and the getBody argument of an upload:
\* unset (nil), or a function that yields a fresh reader over bytes.
NoGetBody == [set |-> FALSE, yields |-> <<>>]
NewGetBody(data) == [set |-> TRUE, yields |-> data]

\* distribution.Descriptor and the io.ReadCloser of DownloadBlob
NewDescriptor(digest, size) == [digest |-> digest, size |-> size]
ZeroDescriptor == NewDescriptor(NoDigest, 0)
NewStream(data) == [present |-> TRUE, data |-> data, closed |-> FALSE]
NoStream == [present |-> FALSE, data |-> <<>>, closed |-> FALSE]

\* What an operation returns: err, and the bool, descriptor or stream of
\* the operations that return one.
NewResult(err, ok, desc, stream) ==
    [returned |-> TRUE, err |-> err, ok |-> ok, desc |-> desc, stream |-> stream]
NoResult ==
    [returned |-> FALSE, err |-> NoErr, ok |-> FALSE, desc |-> ZeroDescriptor,
     stream |-> NoStream]
ErrResult(err) == NewResult(err, FALSE, ZeroDescriptor, NoStream)

\* --------------------------------------------------------- net/url, net/http
\* url.Parse of a Location header
Parse(location) ==
    IF location.wellformed
    THEN [url |-> location.url, err |-> NoErr]
    ELSE [url |-> EmptyURL, err |-> NewErr("url", "parse", 0, <<>>, EmptyURL)]

\* q := u.Query(); q.Set(key, value); u.RawQuery = q.Encode()
QuerySet(url, key, value) ==
    [url EXCEPT !.query = [k \in (DOMAIN url.query) \cup {key} |->
                              IF k = key THEN value ELSE url.query[k]]]

\* url without its query parameters (RawQuery = "")
Bare(url) == [url EXCEPT !.query = NoQuery]

\* http.NewRequest(method, url, body).  hasBody is FALSE for a nil body.  A
\* body that is a *bytes.Buffer, *bytes.Reader or *strings.Reader ("memory")
\* gets GetBody populated automatically; any other reader ("stream") does not.
NewRequest(method, url, hasBody, data, reader) ==
    [method |-> method, url |-> url,
     body |-> IF hasBody THEN data ELSE <<>>,
     getBody |-> IF hasBody /\ reader = "memory" THEN NewGetBody(data) ELSE NoGetBody]

\* ---------------------------------------------------------------- registry
\* registry.url("/v2/%s/blobs/%s", repository, digest)
BlobURL(repo, digest) == NewURL("blob", repo, digest, 0, NoQuery)
\* registry.url("/v2/%s/blobs/uploads/", repository)
UploadsURL(repo) == NewURL("uploads", repo, NoDigest, 0, NoQuery)

\* The request Client.Post, Client.Head and Client.Get build: no body, no
\* GetBody.
BodilessRequest(method, url) == NewRequest(method, url, FALSE, <<>>, "stream")

\* if getBody != nil { upload.GetBody = getBody }
\* (as it would be with the assignment left out)
WithGetBodyDropped(req, getBody) == req
WithGetBody(req, getBody) ==
    IF getBody.set THEN [req EXCEPT !.getBody = getBody] ELSE req

\* errors.Errorf("retrieving %+v returned %v response: %s", uploadUrl,
\* resp.Status, buf.String())
UnexpectedStatusErr(url, resp) == NewErr("errorf", "", resp.status, resp.body, url)

\* The fmt.Errorf errors of UploadBlobToArtifactory: the text names the
\* repository, the digest, the status of resp1 (0 when there is none) and,
\* for a failed exchange, the text of err.
ArtifactoryErr(err, resp) ==
    NewErr("fmt", IF err = NoErr THEN "" ELSE err.kind,
           IF resp.present THEN resp.status ELSE 0, <<>>, EmptyURL)

\* A call: the operation and its arguments (content is the bytes the reader
\* yields, reader its kind, getBody the regenerator argument), where the
\* operation stands (pc), the session location (uploadUrl), the exchanges it
\* has made (reqs: the request, the body sent in each attempt, and the
\* (resp, err) the executor returned), per response it obtained the number
\* of times it closed the body (closes), whether the registry left the
\* protocol or the transport failed in it, and what it returned.
IdleCall ==
    [pc |-> "idle", op |-> "", repo |-> "", digest |-> NoDigest, content |-> <<>>,
     reader |-> "", getBody |-> NoGetBody, uploadUrl |-> EmptyURL, reqs |-> <<>>,
     closes |-> <<>>, offProtocol |-> FALSE, transportErr |-> FALSE,
     result |-> NoResult]

\* The response body is closed n times on the path taken (nothing to close
\* when the response is nil).
Closed(c, resp, n) ==
    IF resp.present THEN [c EXCEPT !.closes = Append(@, n)] ELSE c

Return(c, result) == [c EXCEPT !.pc = "done", !.result = result]

\* initiateUpload: (locationUrl, err) of the POST exchange's (resp, err)
\* (as it would be without the check of err after the POST)
initiateUploadErrUnchecked(resp, err) ==
    LET parsed == Parse(resp.location)
    IN  IF parsed.err # NoErr THEN [url |-> EmptyURL, err |-> parsed.err]
        ELSE [url |-> parsed.url, err |-> NoErr]
initiateUpload(resp, err) ==
    IF err # NoErr THEN [url |-> EmptyURL, err |-> err]
    ELSE LET parsed == Parse(resp.location)
         IN  IF parsed.err # NoErr THEN [url |-> EmptyURL, err |-> parsed.err]
             ELSE [url |-> parsed.url, err |-> NoErr]

\* The head of UploadChunkedBlob, UploadBlobToArtifactory and UploadBlob:
\* uploadUrl, err := registry.initiateUpload(repository); on an error the
\* operation returns it.  UploadBlobToArtifactory and UploadBlob set the
\* digest parameter on uploadUrl right away.  initiateUpload's deferred
\* Close closes the response body once.
\* (as it would be with the location of the first session kept in a place
\* the calls share and used by every call)
AfterInitiateUploadSharedLocation(c, resp, err) ==
    LET r == initiateUpload(resp, err)
        d == Closed(c, resp, 1)
        url == [r.url EXCEPT !.session = 1, !.query = [_state |-> 1]]
    IN  IF r.err # NoErr THEN Return(d, ErrResult(r.err))
        ELSE IF c.op = "UploadChunkedBlob"
             THEN [d EXCEPT !.pc = "patch", !.uploadUrl = url]
        ELSE [d EXCEPT !.pc = IF c.op = "UploadBlob" THEN "put" ELSE "patch",
                       !.uploadUrl = QuerySet(url, "digest", c.digest)]
AfterInitiateUpload(c, resp, err) ==
    LET r == initiateUpload(resp, err)
        d == Closed(c, resp, 1)
    IN  IF r.err # NoErr THEN Return(d, ErrResult(r.err))
        ELSE IF c.op = "UploadChunkedBlob"
             THEN [d EXCEPT !.pc = "patch", !.uploadUrl = r.url]
        ELSE IF c.op = "UploadBlobToArtifactory"
             THEN [d EXCEPT !.pc = "patch",
                            !.uploadUrl = QuerySet(r.url, "digest", c.digest)]
        ELSE [d EXCEPT !.pc = "put",
                       !.uploadUrl = QuerySet(r.url, "digest", c.digest)]

\* UploadChunkedBlob, phase 1: the PATCH request, and what the operation
\* does with the exchange's (resp, err)
UploadChunkedBlobRequest(c) ==
    WithGetBody(NewRequest("PATCH", c.uploadUrl, TRUE, c.content, c.reader), c.getBody)
\* (as it would be without the check of the status against 202)
UploadChunkedBlobReplyAnyStatus(c, resp, err) ==
    IF err # NoErr THEN Return(Closed(c, resp, 0), ErrResult(err))
    ELSE [Closed(c, resp, 1) EXCEPT !.pc = "put"]
\* (as it would be with the PATCH sent again after an unexpected status)
UploadChunkedBlobReplyRetrying(c, resp, err) ==
    IF err # NoErr THEN Return(Closed(c, resp, 0), ErrResult(err))
    ELSE IF resp.status # 202 THEN Closed(c, resp, 1)
    ELSE [Closed(c, resp, 1) EXCEPT !.pc = "put"]
UploadChunkedBlobReply(c, resp, err) ==
    IF err # NoErr THEN Return(Closed(c, resp, 0), ErrResult(err))
    ELSE IF resp.status # 202
         THEN Return(Closed(c, resp, 0),
                     ErrResult(UnexpectedStatusErr(c.uploadUrl, resp)))
    ELSE [Closed(c, resp, 1) EXCEPT !.pc = "put"]

\* completeChunkedUploadBlob: the digest parameter is set on uploadUrl, the
\* PUT request has a nil body
completeChunkedUploadBlobRequest(c) ==
    WithGetBody(NewRequest("PUT", QuerySet(c.uploadUrl, "digest", c.digest),
                           FALSE, <<>>, c.reader),
                c.getBody)
\* (as it would be with the outcome of the PUT dropped)
completeChunkedUploadBlobReplyUnchecked(c, resp, err) ==
    Return(Closed([c EXCEPT !.uploadUrl = QuerySet(c.uploadUrl, "digest", c.digest)],
                  resp, 0),
           ErrResult(NoErr))
completeChunkedUploadBlobReply(c, resp, err) ==
    LET url == QuerySet(c.uploadUrl, "digest", c.digest)
        d == [c EXCEPT !.uploadUrl = url]
    IN  IF err # NoErr THEN Return(Closed(d, resp, 0), ErrResult(err))
        ELSE IF resp.status # 201
             THEN Return(Closed(d, resp, 0), ErrResult(UnexpectedStatusErr(url, resp)))
        ELSE Return(Closed(d, resp, 1), ErrResult(NoErr))

\* UploadBlobToArtifactory, step 1 (PATCH) and step 2 (PUT).  The deferred
\* resp1.Body.Close() runs when the operation returns, on every path.
UploadBlobToArtifactoryRequest1(c) ==
    WithGetBody(NewRequest("PATCH", c.uploadUrl, TRUE, c.content, c.reader), c.getBody)
UploadBlobToArtifactoryReply1(c, resp, err) ==
    IF err # NoErr THEN Return(Closed(c, resp, 1), ErrResult(ArtifactoryErr(err, resp)))
    ELSE IF resp.status # 202
         THEN Return(Closed(c, resp, 1), ErrResult(ArtifactoryErr(NoErr, resp)))
    ELSE [Closed(c, resp, 1) EXCEPT !.pc = "put"]
UploadBlobToArtifactoryRequest2(c) ==
    WithGetBody(NewRequest("PUT", c.uploadUrl, FALSE, <<>>, c.reader), c.getBody)
\* _, err = registry.Client.Do(uploadStep2); return err
UploadBlobToArtifactoryReply2(c, resp, err) ==
    Return(Closed(c, resp, 0), ErrResult(err))

\* UploadBlob: one PUT with the content
UploadBlobRequest(c) ==
    WithGetBody(NewRequest("PUT", c.uploadUrl, TRUE, c.content, c.reader), c.getBody)
\* (as it would be with err dropped)
UploadBlobReplyErrIgnored(c, resp, err) == Return(Closed(c, resp, 1), ErrResult(NoErr))
UploadBlobReply(c, resp, err) ==
    IF err # NoErr THEN Return(Closed(c, resp, 0), ErrResult(err))
    ELSE Return(Closed(c, resp, 1), ErrResult(NoErr))

\* HasBlob: (bool, error) of the HEAD exchange's (resp, err)
\* (as it would be if every HTTP-status error were taken for "not found")
HasBlobReplyAnyStatus(c, resp, err) ==
    LET d == Closed(c, resp, 1)
    IN  IF err = NoErr
        THEN Return(d, NewResult(NoErr, resp.status = 200, ZeroDescriptor, NoStream))
        ELSE IF err.kind # "url" THEN Return(d, ErrResult(err))
        ELSE IF err.cause # "http" THEN Return(d, ErrResult(err))
        ELSE Return(d, ErrResult(NoErr))
\* (as it would be with every 2xx status taken for "present")
HasBlobReplyAnySuccess(c, resp, err) ==
    LET d == Closed(c, resp, 1)
    IN  IF err = NoErr
        THEN Return(d, NewResult(NoErr, resp.status >= 200 /\ resp.status < 300,
                                 ZeroDescriptor, NoStream))
        ELSE IF err.kind # "url" THEN Return(d, ErrResult(err))
        ELSE IF err.cause # "http" THEN Return(d, ErrResult(err))
        ELSE IF err.status = 404 THEN Return(d, ErrResult(NoErr))
        ELSE Return(d, ErrResult(err))
HasBlobReply(c, resp, err) ==
    LET d == Closed(c, resp, 1)
    IN  IF err = NoErr
        THEN Return(d, NewResult(NoErr, resp.status = 200, ZeroDescriptor, NoStream))
        ELSE IF err.kind # "url" THEN Return(d, ErrResult(err))
        ELSE IF err.cause # "http" THEN Return(d, ErrResult(err))
        ELSE IF err.status = 404 THEN Return(d, ErrResult(NoErr))
        ELSE Return(d, ErrResult(err))

\* BlobMetadata: (distribution.Descriptor, error)
\* (as it would be with HasBlob's narrowing of a wrapped 404 copied in)
BlobMetadataReplyNarrowing(c, resp, err) ==
    LET d == Closed(c, resp, 1)
    IN  IF err # NoErr /\ ~(err.kind = "url" /\ err.cause = "http" /\ err.status = 404)
        THEN Return(d, ErrResult(err))
        ELSE Return(d, NewResult(NoErr, FALSE,
                                 NewDescriptor(c.digest, resp.contentLength), NoStream))
\* (as it would be with the size taken from the bytes of the body, of
\* which a HEAD response has none)
BlobMetadataReplyBodySize(c, resp, err) ==
    LET d == Closed(c, resp, 1)
    IN  IF err # NoErr THEN Return(d, ErrResult(err))
        ELSE Return(d, NewResult(NoErr, FALSE,
                                 NewDescriptor(c.digest, Len(resp.body)), NoStream))
BlobMetadataReply(c, resp, err) ==
    LET d == Closed(c, resp, 1)
    IN  IF err # NoErr THEN Return(d, ErrResult(err))
        ELSE Return(d, NewResult(NoErr, FALSE,
                                 NewDescriptor(c.digest, resp.contentLength), NoStream))

\* DownloadBlob: (io.ReadCloser, error); the body is handed over unclosed
\* (as it would be with the deferred Close of the other operations)
DownloadBlobReplyClosed(c, resp, err) ==
    IF err # NoErr THEN Return(Closed(c, resp, 1), ErrResult(err))
    ELSE Return(Closed(c, resp, 1),
                NewResult(NoErr, FALSE, ZeroDescriptor,
                          [NewStream(<<>>) EXCEPT !.closed = TRUE]))
\* (as it would be with a check of the status against 200)
DownloadBlobReplyStatusChecked(c, resp, err) ==
    IF err # NoErr THEN Return(Closed(c, resp, 0), ErrResult(err))
    ELSE IF resp.status # 200
         THEN Return(Closed(c, resp, 1), ErrResult(UnexpectedStatusErr(EmptyURL, resp)))
    ELSE Return(Closed(c, resp, 0),
                NewResult(NoErr, FALSE, ZeroDescriptor, NewStream(resp.body)))
DownloadBlobReply(c, resp, err) ==
    IF err # NoErr THEN Return(Closed(c, resp, 0), ErrResult(err))
    ELSE Return(Closed(c, resp, 0),
                NewResult(NoErr, FALSE, ZeroDescriptor, NewStream(resp.body)))

\* ------------------------------------------------------------------- state
VARIABLES
    calls,        \* per caller, the call it is in (IdleCall between calls)
    ncalls,       \* number of calls made so far
    faults,       \* number of deviating events so far
    blobs,        \* registry: the committed blobs, [repo, digest, data]
    sessions,     \* registry: the open upload sessions, [id, repo, data]
    nextSession,  \* registry: the id of the next upload session
    uploaded      \* history: the upload the caller made just before this
                  \* call, when it returned success and the registry kept to
                  \* the protocol in it (else NoUpload)
vars == <<calls, ncalls, faults, blobs, sessions, nextSession, uploaded>>

NoUpload == [op |-> "", repo |-> "", digest |-> NoDigest, content |-> <<>>]

\* ------------------------------------------------ the registry (environment)
\* The location of upload session id, as the registry hands it out.
SessionURL(repo, id) == NewURL("session", repo, NoDigest, id, [_state |-> id])

Session(url) == {x \in sessions : x.id = url.session /\ x.repo = url.repo}
Blob(repo, digest) == {b \in blobs : b.repo = repo /\ b.digest = digest}

NotFound == NewResp(404, NoLocation, ErrText, Len(ErrText))

\* The registry's answer to a request by the distribution protocol, and its
\* state after it.
Serve(req) ==
    LET same == [blobs |-> blobs, sessions |-> sessions, nextSession |-> nextSession]
        url == req.url
    IN  IF req.method = "POST" /\ url.endpoint = "uploads"
        THEN [same EXCEPT !.sessions = @ \cup {[id |-> nextSession, repo |-> url.repo,
                                                data |-> <<>>]},
                          !.nextSession = @ + 1]
             @@ [resp |-> NewResp(202, NewLocation(SessionURL(url.repo, nextSession)),
                                  <<>>, 0)]
        ELSE IF req.method = "PATCH" /\ url.endpoint = "session" /\ Session(url) # {}
        THEN LET x == CHOOSE x \in Session(url) : TRUE
             IN  [same EXCEPT !.sessions = (@ \ {x})
                                  \cup {[x EXCEPT !.data = @ \o req.body]}]
                 @@ [resp |-> NewResp(202, NewLocation(url), <<>>, 0)]
        ELSE IF req.method = "PUT" /\ url.endpoint = "session" /\ Session(url) # {}
        THEN LET x == CHOOSE x \in Session(url) : TRUE
                 data == x.data \o req.body
             IN  IF "digest" \in DOMAIN url.query /\ url.query["digest"] = Hash(data)
                 THEN [same EXCEPT !.sessions = @ \ {x},
                                   !.blobs = @ \cup {[repo |-> x.repo,
                                                      digest |-> Hash(data),
                                                      data |-> data]}]
                      @@ [resp |-> NewResp(201, NoLocation, <<>>, 0)]
                 ELSE [same EXCEPT !.sessions = @ \ {x}]
                      @@ [resp |-> NewResp(400, NoLocation, ErrText, Len(ErrText))]
        ELSE IF req.method \in {"HEAD", "GET"} /\ url.endpoint = "blob"
                /\ Blob(url.repo, url.digest) # {}
        THEN LET b == CHOOSE b \in Blob(url.repo, url.digest) : TRUE
             IN  same @@ [resp |-> NewResp(200, NoLocation,
                                           IF req.method = "GET" THEN b.data ELSE <<>>,
                                           Len(b.data))]
        ELSE same @@ [resp |-> NotFound]

\* ------------------------------------------- the HTTP executor (environment)
\* Statuses a registry that does not keep to the protocol may answer with.
OffStatuses == {200, 201, 202, 204, 500}

\* What the environment does to an exchange: the registry answers by the
\* protocol; or with an off-protocol status; or (session start) with a
\* Location that does not parse; or the exchange fails with a transport
\* error, with or without a response.
Outcomes(method) ==
    {[type |-> "protocol", status |-> 0, resp |-> NoResp, err |-> NoErr]}
    \cup {[type |-> "status", status |-> s, resp |-> NoResp, err |-> NoErr] :
             s \in OffStatuses}
    \cup (IF method = "POST"
          THEN {[type |-> "badLocation", status |-> 202, resp |-> NoResp, err |-> NoErr]}
          ELSE {})
    \cup {[type |-> "fail", status |-> 0, resp |-> NoResp, err |-> PlainErr],
          [type |-> "fail", status |-> 0, resp |-> NoResp, err |-> UrlNetErr],
          [type |-> "fail", status |-> 0, resp |-> NewResp(302, NoLocation, <<>>, 0),
           err |-> NewErr("url", "redirect", 0, <<>>, EmptyURL)]}

\* The transport reports a response with a status >= 400 as an error: no
\* response, and a *url.Error around an *HttpStatusError.
ErrorTransport(resp) ==
    IF resp.status >= 400
    THEN [resp |-> NoResp, err |-> UrlHttpErr(resp.status, resp.body)]
    ELSE [resp |-> resp, err |-> NoErr]

\* The bodies the executor sends for a request, one per attempt: the body of
\* the request, and after an authentication challenge the replay, with the
\* body GetBody yields, or what is left of the consumed reader without one.
Attempts(req, challenge) ==
    IF challenge
    THEN <<req.body, IF req.getBody.set THEN req.getBody.yields ELSE <<>>>>
    ELSE <<req.body>>

\* One exchange: the last attempt reaches the registry; (resp, err) is what
\* the executor returns, and the state of the registry after it.
Exchange(req, challenge, o) ==
    LET sent == Attempts(req, challenge)
        final == [req EXCEPT !.body = sent[Len(sent)]]
        same == [blobs |-> blobs, sessions |-> sessions, nextSession |-> nextSession]
    IN  IF req.url.endpoint = ""
        THEN \* a URL without a scheme: "unsupported protocol scheme"
             same @@ [resp |-> NoResp, err |-> NewErr("url", "scheme", 0, <<>>, EmptyURL)]
        ELSE IF o.type = "fail" THEN same @@ [resp |-> o.resp, err |-> o.err]
        ELSE IF o.type = "status"
             THEN same @@ ErrorTransport(NewResp(o.status, NoLocation, ErrText,
                                                 Len(ErrText)))
        ELSE IF o.type = "badLocation"
             THEN same @@ ErrorTransport(NewResp(o.status, BadLocation, <<>>, 0))
        ELSE LET served == Serve(final)
             IN  [blobs |-> served.blobs, sessions |-> served.sessions,
                  nextSession |-> served.nextSession]
                 @@ ErrorTransport(served.resp)

Cost(challenge, o) ==
    (IF challenge THEN 1 ELSE 0) + (IF o.type = "protocol" THEN 0 ELSE 1)

\* ----------------------------------------------------------------- actions
Init ==
    /\ calls = [c \in Callers |-> IdleCall]
    /\ ncalls = 0
    /\ faults = 0
    /\ blobs = {}
    /\ sessions = {}
    /\ nextSession = 1
    /\ uploaded = NoUpload

FirstStep(op) ==
    IF op \in UploadOps THEN "post" ELSE IF op = "DownloadBlob" THEN "get" ELSE "head"

\* A caller calls an operation.
Invoke(c) ==
    /\ calls[c].pc = "idle"
    /\ ncalls < MaxCalls
    /\ \E op \in Ops, repo \in Repos, digest \in Digests :
         \E content \in (IF op \in UploadOps THEN Contents ELSE {<<>>}),
            source \in (IF op \in UploadOps
                        THEN {<<"stream", FALSE>>, <<"stream", TRUE>>, <<"memory", FALSE>>}
                        ELSE {<<"", FALSE>>}) :
           calls' = [calls EXCEPT ![c] =
                       [IdleCall EXCEPT !.pc = FirstStep(op), !.op = op, !.repo = repo,
                                        !.digest = digest, !.content = content,
                                        !.reader = source[1],
                                        !.getBody = IF source[2] THEN NewGetBody(content)
                                                    ELSE NoGetBody]]
    /\ ncalls' = ncalls + 1
    /\ UNCHANGED <<faults, blobs, sessions, nextSession, uploaded>>

\* One exchange of call c: the request goes out, the environment answers,
\* and the operation goes on as Reply says.
Step(c, req, challenge, o, Reply(_, _, _)) ==
    LET x == Exchange(req, challenge, o)
        entry == [method |-> req.method, url |-> req.url,
                  sent |-> Attempts(req, challenge), getBody |-> req.getBody,
                  resp |-> x.resp, err |-> x.err]
        sent == [calls[c] EXCEPT !.reqs = Append(@, entry),
                                 !.offProtocol = @ \/ o.type \in {"status", "badLocation"},
                                 !.transportErr = @ \/ o.type = "fail"]
        after == Reply(sent, x.resp, x.err)
    IN  /\ faults + Cost(challenge, o) <= MaxFaults
        /\ faults' = faults + Cost(challenge, o)
        /\ calls' = [calls EXCEPT ![c] = after]
        /\ blobs' = x.blobs
        /\ sessions' = x.sessions
        /\ nextSession' = x.nextSession
        /\ UNCHANGED <<ncalls, uploaded>>

At(c, op, pc) == calls[c].op = op /\ calls[c].pc = pc

\* initiateUpload's POST, for the three upload operations
InitiateUpload(c) ==
    /\ calls[c].pc = "post"
    /\ \E o \in Outcomes("POST") :
         Step(c, BodilessRequest("POST", UploadsURL(calls[c].repo)), FALSE, o,
              AfterInitiateUpload)

UploadChunkedBlob(c) ==
    /\ At(c, "UploadChunkedBlob", "patch")
    /\ \E challenge \in BOOLEAN, o \in Outcomes("PATCH") :
         Step(c, UploadChunkedBlobRequest(calls[c]), challenge, o, UploadChunkedBlobReply)

completeChunkedUploadBlob(c) ==
    /\ At(c, "UploadChunkedBlob", "put")
    /\ \E challenge \in BOOLEAN, o \in Outcomes("PUT") :
         Step(c, completeChunkedUploadBlobRequest(calls[c]), challenge, o,
              completeChunkedUploadBlobReply)

UploadBlobToArtifactoryStep1(c) ==
    /\ At(c, "UploadBlobToArtifactory", "patch")
    /\ \E challenge \in BOOLEAN, o \in Outcomes("PATCH") :
         Step(c, UploadBlobToArtifactoryRequest1(calls[c]), challenge, o,
              UploadBlobToArtifactoryReply1)

UploadBlobToArtifactoryStep2(c) ==
    /\ At(c, "UploadBlobToArtifactory", "put")
    /\ \E challenge \in BOOLEAN, o \in Outcomes("PUT") :
         Step(c, UploadBlobToArtifactoryRequest2(calls[c]), challenge, o,
              UploadBlobToArtifactoryReply2)

UploadBlob(c) ==
    /\ At(c, "UploadBlob", "put")
    /\ \E challenge \in BOOLEAN, o \in Outcomes("PUT") :
         Step(c, UploadBlobRequest(calls[c]), challenge, o, UploadBlobReply)

HasBlob(c) ==
    /\ At(c, "HasBlob", "head")
    /\ \E o \in Outcomes("HEAD") :
         Step(c, BodilessRequest("HEAD", BlobURL(calls[c].repo, calls[c].digest)),
              FALSE, o, HasBlobReply)

BlobMetadata(c) ==
    /\ At(c, "BlobMetadata", "head")
    /\ \E o \in Outcomes("HEAD") :
         Step(c, BodilessRequest("HEAD", BlobURL(calls[c].repo, calls[c].digest)),
              FALSE, o, BlobMetadataReply)

DownloadBlob(c) ==
    /\ At(c, "DownloadBlob", "get")
    /\ \E o \in Outcomes("GET") :
         Step(c, BodilessRequest("GET", BlobURL(calls[c].repo, calls[c].digest)),
              FALSE, o, DownloadBlobReply)

\* The caller has the result; it is free to make its next call.
Finish(c) ==
    /\ calls[c].pc = "done"
    /\ calls' = [calls EXCEPT ![c] = IdleCall]
    /\ uploaded' = IF /\ calls[c].op \in UploadOps
                      /\ calls[c].result.err = NoErr
                      /\ ~calls[c].offProtocol
                   THEN [op |-> calls[c].op, repo |-> calls[c].repo,
                         digest |-> calls[c].digest, content |-> calls[c].content]
                   ELSE NoUpload
    /\ UNCHANGED <<ncalls, faults, blobs, sessions, nextSession>>

Next ==
    \E c \in SeqCallers :
        \/ Invoke(c)
        \/ InitiateUpload(c)
        \/ UploadChunkedBlob(c)
        \/ completeChunkedUploadBlob(c)
        \/ UploadBlobToArtifactoryStep1(c)
        \/ UploadBlobToArtifactoryStep2(c)
        \/ UploadBlob(c)
        \/ HasBlob(c)
        \/ BlobMetadata(c)
        \/ DownloadBlob(c)
        \/ Finish(c)

Spec == Init /\ [][Next]_vars

\* ------------------------------------------------------------------ claims
ChunkedOps == {"UploadChunkedBlob", "UploadBlobToArtifactory"}
\* The exchanges of call c so far that used method.
Exchanges(c, method) ==
    {calls[c].reqs[i] : i \in {j \in 1..Len(calls[c].reqs) : calls[c].reqs[j].method = method}}
Finished(c) == calls[c].pc = "done"
Failed(c) == Finished(c) /\ calls[c].result.err # NoErr
Succeeded(c) == Finished(c) /\ calls[c].result.err = NoErr
\* The registry kept to the protocol and the transport did not fail in call c.
Conformant(c) == ~calls[c].offProtocol /\ ~calls[c].transportErr
\* The exchange returned an HTTP-status error: the registry answered with a
\* status that is not a success.
Rejected(e) == e.err.kind = "url" /\ e.err.cause = "http"
\* The exchanges of call c that carry the content: the PATCH of a chunked
\* upload, the PUT of UploadBlob.
BodyCarrying(c) ==
    IF calls[c].op = "UploadBlob" THEN Exchanges(c, "PUT")
    ELSE IF calls[c].op \in ChunkedOps THEN Exchanges(c, "PATCH")
    ELSE {}

\* C1: in a chunked upload (UploadChunkedBlob, UploadBlobToArtifactory), once
\* the PATCH exchange has returned a response with a status other than 202,
\* the operation has returned a failure and the call has issued no PUT.
C1_NoPutAfterRefusedPatch ==
    \A c \in Callers :
        calls[c].op \in ChunkedOps =>
            \A e \in Exchanges(c, "PATCH") :
                e.resp.present /\ e.resp.status # 202 =>
                    Failed(c) /\ Exchanges(c, "PUT") = {}
C1_Witness ==
    \E c \in Callers :
        /\ calls[c].op = "UploadChunkedBlob"
        /\ \E e \in Exchanges(c, "PATCH") :
               e.err = NoErr /\ e.resp.present /\ e.resp.status = 204
        /\ Failed(c)

\* C2: in a chunked upload whose PATCH returned 202, a finalizing PUT that
\* returns a response with a status other than 201 makes the operation
\* return a failure that carries that status and the body text, and the
\* operation returns success only when the PUT returned 201.
C2_FinalizeNeeds201 ==
    \A c \in Callers :
        (/\ calls[c].op \in ChunkedOps
         /\ Finished(c)
         /\ \E e \in Exchanges(c, "PATCH") : e.err = NoErr /\ e.resp.status = 202)
        => /\ \A e \in Exchanges(c, "PUT") :
                  e.err = NoErr /\ e.resp.present /\ e.resp.status # 201 =>
                      /\ calls[c].result.err # NoErr
                      /\ calls[c].result.err.status = e.resp.status
                      /\ calls[c].result.err.body = e.resp.body
           /\ calls[c].result.err = NoErr =>
                  \E e \in Exchanges(c, "PUT") : e.resp.present /\ e.resp.status = 201

\* C3: when the upload the caller made just before (any of the three upload
\* operations, repository R, digest D) returned success, HasBlob(R, D)
\* against a registry that keeps to the protocol returns (true, nil).
C3_HasBlobAfterUpload ==
    \A c \in Callers :
        (/\ calls[c].op = "HasBlob"
         /\ Finished(c)
         /\ Conformant(c)
         /\ uploaded.op \in UploadOps
         /\ uploaded.repo = calls[c].repo
         /\ uploaded.digest = calls[c].digest)
        => calls[c].result.ok /\ calls[c].result.err = NoErr
C3_Witness ==
    \E c \in Callers :
        /\ calls[c].op = "HasBlob"
        /\ Finished(c)
        /\ Conformant(c)
        /\ uploaded.op = "UploadChunkedBlob"
        /\ uploaded.repo = calls[c].repo
        /\ uploaded.digest = calls[c].digest
        /\ calls[c].result.ok

\* C4: for a digest that is absent on the registry, HasBlob returns
\* (false, nil) and BlobMetadata returns the zero descriptor with a non-nil
\* error.
C4_AbsentDigest ==
    \A c \in Callers :
        (/\ Finished(c)
         /\ Conformant(c)
         /\ Blob(calls[c].repo, calls[c].digest) = {})
        => /\ calls[c].op = "HasBlob" =>
                  ~calls[c].result.ok /\ calls[c].result.err = NoErr
           /\ calls[c].op = "BlobMetadata" =>
                  calls[c].result.desc = ZeroDescriptor /\ calls[c].result.err # NoErr
C4_Witness ==
    \E c \in Callers :
        /\ calls[c].op = "BlobMetadata"
        /\ Finished(c)
        /\ Conformant(c)
        /\ blobs # {}
        /\ Blob(calls[c].repo, calls[c].digest) = {}
        /\ calls[c].result.err.status = 404

\* C5: of the errors of the HEAD exchange, HasBlob turns exactly the
\* *url.Error around an HTTP-status error with status 404 into (false, nil);
\* with every other error it returns false and that error, unchanged.
C5_OnlyWrapped404Narrowed ==
    \A c \in Callers :
        calls[c].op = "HasBlob" /\ Finished(c) =>
            \A e \in Exchanges(c, "HEAD") :
                e.err # NoErr =>
                    /\ ~calls[c].result.ok
                    /\ calls[c].result.err =
                           IF e.err.kind = "url" /\ e.err.cause = "http"
                              /\ e.err.status = 404
                           THEN NoErr ELSE e.err
C5_Witness ==
    \E c \in Callers :
        /\ calls[c].op = "HasBlob"
        /\ Finished(c)
        /\ \E e \in Exchanges(c, "HEAD") : Rejected(e) /\ e.err.status = 404
        /\ calls[c].result.err = NoErr
        /\ ~calls[c].result.ok

\* C6: when the registry rejects the PUT of UploadBlob with a status that is
\* not a success (as it does when the content does not match the digest),
\* UploadBlob returns a failure.
C6_RejectedPutFails ==
    \A c \in Callers :
        calls[c].op = "UploadBlob" =>
            \A e \in Exchanges(c, "PUT") : Rejected(e) => Failed(c)
C6_Witness ==
    \E c \in Callers :
        /\ calls[c].op = "UploadBlob"
        /\ Conformant(c)
        /\ calls[c].digest # Hash(calls[c].content)
        /\ \E e \in Exchanges(c, "PUT") : Rejected(e) /\ e.err.status = 400
        /\ Failed(c)

\* C7: when the session-start POST returns a transport error or a status
\* that is not a success, or the Location does not parse, the upload
\* operation returns that failure and issues neither PATCH nor PUT.
C7_FailedInitiationEndsUpload ==
    \A c \in Callers :
        calls[c].op \in UploadOps =>
            \A e \in Exchanges(c, "POST") :
                e.err # NoErr \/ ~e.resp.location.wellformed =>
                    /\ Failed(c)
                    /\ calls[c].result.err =
                           IF e.err # NoErr THEN e.err ELSE Parse(e.resp.location).err
                    /\ Exchanges(c, "PATCH") = {}
                    /\ Exchanges(c, "PUT") = {}
C7_Witness ==
    \E c \in Callers :
        /\ calls[c].op \in UploadOps
        /\ \E e \in Exchanges(c, "POST") : Rejected(e)
        /\ Failed(c)
        /\ Len(calls[c].reqs) = 1

\* C8: when an operation other than DownloadBlob has returned, it has closed
\* the body of every response it obtained exactly once; DownloadBlob has not
\* closed the body it returns.
C8_BodiesClosedOnce ==
    \A c \in Callers :
        Finished(c) =>
            \A i \in 1..Len(calls[c].closes) :
                calls[c].closes[i] = IF calls[c].op = "DownloadBlob" THEN 0 ELSE 1

\* C9 (as claimed): when the caller passes a regenerator and the executor
\* replays the body-carrying request after a challenge, the replayed body is
\* the original content; when the caller passes none, the request has none.
C9_RegeneratorOnlyFromCaller ==
    \A c \in Callers :
        \A e \in BodyCarrying(c) :
            /\ calls[c].getBody.set /\ Len(e.sent) = 2 => e.sent[2] = calls[c].content
            /\ ~calls[c].getBody.set => ~e.getBody.set
\* C9 (amended): when the caller passes a regenerator and the executor
\* replays the body-carrying request after a challenge, the replayed body is
\* the original content; when the caller passes none, the request keeps the
\* GetBody http.NewRequest gave it: one over the content for an in-memory
\* reader, none for any other reader.
C9_RegeneratorPlumbing ==
    \A c \in Callers :
        \A e \in BodyCarrying(c) :
            /\ calls[c].getBody.set /\ Len(e.sent) = 2 => e.sent[2] = calls[c].content
            /\ ~calls[c].getBody.set =>
                   e.getBody = IF calls[c].reader = "memory"
                               THEN NewGetBody(calls[c].content) ELSE NoGetBody
C9_Witness ==
    \E c \in Callers :
        /\ calls[c].op \in UploadOps
        /\ calls[c].getBody.set
        /\ calls[c].reader = "stream"
        /\ \E e \in BodyCarrying(c) :
               Len(e.sent) = 2 /\ e.sent[2] = calls[c].content /\ e.getBody.set

\* C10: DownloadBlob(R, D) right after a successful UploadBlob(R, D, content),
\* against a registry that keeps to the protocol, returns an open stream over
\* exactly content.
C10_RoundTrip ==
    \A c \in Callers :
        (/\ calls[c].op = "DownloadBlob"
         /\ Finished(c)
         /\ Conformant(c)
         /\ uploaded.op = "UploadBlob"
         /\ uploaded.repo = calls[c].repo
         /\ uploaded.digest = calls[c].digest)
        => /\ calls[c].result.err = NoErr
           /\ calls[c].result.stream.present
           /\ ~calls[c].result.stream.closed
           /\ calls[c].result.stream.data = uploaded.content
C10_Witness ==
    \E c \in Callers :
        /\ calls[c].op = "DownloadBlob"
        /\ Finished(c)
        /\ uploaded.op = "UploadBlob"
        /\ uploaded.repo = calls[c].repo
        /\ uploaded.digest = calls[c].digest
        /\ calls[c].result.stream.present
        /\ calls[c].result.stream.data = uploaded.content
        /\ Len(uploaded.content) = 2

\* C11: BlobMetadata on a blob that is present with L bytes returns, with a
\* nil error, a descriptor with the caller's digest and size L.
C11_MetadataOfPresentBlob ==
    \A c \in Callers :
        (/\ calls[c].op = "BlobMetadata"
         /\ Finished(c)
         /\ Conformant(c))
        => \A b \in Blob(calls[c].repo, calls[c].digest) :
               /\ calls[c].result.err = NoErr
               /\ calls[c].result.desc = NewDescriptor(calls[c].digest, Len(b.data))
C11_Witness ==
    \E c \in Callers :
        /\ calls[c].op = "BlobMetadata"
        /\ Finished(c)
        /\ Conformant(c)
        /\ \E b \in Blob(calls[c].repo, calls[c].digest) :
               Len(b.data) = 2 /\ calls[c].result.desc.size = 2

\* C13: DownloadBlob does not look at the status: when the GET exchange
\* returns no error it returns the body of the response, whatever the
\* status, with a nil error; it returns a nil stream and an error exactly
\* when the exchange returned one, and then that error.
C13_DownloadAnyStatus ==
    \A c \in Callers :
        calls[c].op = "DownloadBlob" /\ Finished(c) =>
            \A e \in Exchanges(c, "GET") :
                IF e.err = NoErr
                THEN /\ calls[c].result.err = NoErr
                     /\ calls[c].result.stream = NewStream(e.resp.body)
                ELSE /\ calls[c].result.err = e.err
                     /\ calls[c].result.stream = NoStream
C13_Witness ==
    \E c \in Callers :
        /\ calls[c].op = "DownloadBlob"
        /\ Finished(c)
        /\ \E e \in Exchanges(c, "GET") : e.err = NoErr /\ e.resp.status = 204
        /\ calls[c].result.err = NoErr
        /\ calls[c].result.stream.present
        /\ calls[c].result.stream.data = ErrText

\* C18: HasBlob returns (true, nil) exactly when the HEAD exchange returned
\* no error and status 200; with no error and any other status it returns
\* (false, nil).
C18_TrueOnlyOn200 ==
    \A c \in Callers :
        calls[c].op = "HasBlob" /\ Finished(c) =>
            \A e \in Exchanges(c, "HEAD") :
                /\ calls[c].result.ok /\ calls[c].result.err = NoErr
                       <=> e.err = NoErr /\ e.resp.status = 200
                /\ e.err = NoErr /\ e.resp.status # 200 =>
                       ~calls[c].result.ok /\ calls[c].result.err = NoErr
C18_Witness ==
    \E c \in Callers :
        /\ calls[c].op = "HasBlob"
        /\ Finished(c)
        /\ \E e \in Exchanges(c, "HEAD") : e.err = NoErr /\ e.resp.status = 204
        /\ ~calls[c].result.ok
        /\ calls[c].result.err = NoErr

\* The methods of the exchanges of call c so far, in the order issued.
Methods(c) == [i \in 1..Len(calls[c].reqs) |-> calls[c].reqs[i].method]
\* The exchanges an operation may issue, in order.
Pattern(op) ==
    IF op \in ChunkedOps THEN <<"POST", "PATCH", "PUT">>
    ELSE IF op = "UploadBlob" THEN <<"POST", "PUT">>
    ELSE IF op = "DownloadBlob" THEN <<"GET">>
    ELSE <<"HEAD">>
IsPrefix(s, t) == Len(s) <= Len(t) /\ \A i \in 1..Len(s) : s[i] = t[i]
\* The session location call c obtained: the Location of the response to
\* its own POST.
OwnLocation(c) == Parse(calls[c].reqs[1].resp.location).url
\* The exchange ended in an error that is not the registry's status: the
\* request did not get a response through.
TransportError(e) == e.err # NoErr /\ ~Rejected(e)

\* C14: the exchanges of a call follow the fixed order of its operation, each
\* at most once: POST, then PUT (UploadBlob) or PATCH, then PUT (chunked);
\* an exchange is issued only after the one before it returned without an
\* error; a call that has returned has issued at least its first exchange; a
\* PATCH or PUT targets the session location of the call's own POST; HasBlob,
\* BlobMetadata and DownloadBlob issue exactly one request.
C14_FixedOrder ==
    \A c \in Callers :
        calls[c].pc # "idle" =>
            /\ IsPrefix(Methods(c), Pattern(calls[c].op))
            /\ \A i \in 2..Len(calls[c].reqs) :
                   /\ calls[c].reqs[i - 1].err = NoErr
                   /\ Bare(calls[c].reqs[i].url) = Bare(OwnLocation(c))
            /\ Finished(c) => Len(calls[c].reqs) >= 1
            /\ Finished(c) /\ calls[c].op \notin UploadOps => Len(calls[c].reqs) = 1
C14_Witness ==
    \E c \in Callers :
        /\ calls[c].op = "UploadChunkedBlob"
        /\ Succeeded(c)
        /\ Methods(c) = <<"POST", "PATCH", "PUT">>
        /\ OwnLocation(c).session = 2
        /\ calls[c].reqs[3].url.session = 2

\* C12: an exchange that ended in a transport error is the last exchange of
\* its call, and the call has returned that very error value.
C12_TransportErrorUnchanged ==
    \A c \in Callers :
        \A i \in 1..Len(calls[c].reqs) :
            TransportError(calls[c].reqs[i]) =>
                /\ i = Len(calls[c].reqs)
                /\ Finished(c)
                /\ calls[c].result.err = calls[c].reqs[i].err

\* C15: in a chunked upload the PATCH goes to the session location as the
\* POST returned it, with no digest parameter, and the PUT to that location
\* with the digest parameter set to the caller's digest and nothing else
\* changed; in UploadBlob the PUT alone carries the digest; no POST does.
C15_DigestOnlyOnFinalize ==
    \A c \in Callers :
        calls[c].op \in UploadOps =>
            /\ \A e \in Exchanges(c, "POST") : "digest" \notin DOMAIN e.url.query
            /\ \A e \in Exchanges(c, "PATCH") : e.url = OwnLocation(c)
            /\ \A e \in Exchanges(c, "PUT") :
                   e.url = QuerySet(OwnLocation(c), "digest", calls[c].digest)

\* C17: every attempt of the finalizing PUT of a chunked upload, the replay
\* after an authentication challenge included, sends a zero-length body.
C17_FinalizeBodyEmpty ==
    \A c \in Callers :
        calls[c].op \in ChunkedOps =>
            \A e \in Exchanges(c, "PUT") :
                \A i \in 1..Len(e.sent) : e.sent[i] = <<>>

\* ------------------------------------------------------- concurrent callers
\* Each caller works on a repository of its own.
Home == [c \in Callers |-> IF c = "a" THEN "alpine" ELSE "busybox"]
\* and uploads, probes and downloads content of its own.
Stock == [c \in Callers |-> IF c = "a" THEN <<1>> ELSE <<2, 1>>]

\* A caller calls an operation on its repository, while calls of other
\* callers may be in progress.
InvokeConcurrently(c) ==
    /\ calls[c].pc = "idle"
    /\ ncalls < MaxCalls
    /\ \E op \in Ops, digest \in {Hash(Stock[c])} :
         \E content \in (IF op \in UploadOps THEN {Stock[c]} ELSE {<<>>}),
            source \in (IF op \in UploadOps THEN {<<"stream", TRUE>>}
                        ELSE {<<"", FALSE>>}) :
           calls' = [calls EXCEPT ![c] =
                       [IdleCall EXCEPT !.pc = FirstStep(op), !.op = op,
                                        !.repo = Home[c],
                                        !.digest = digest, !.content = content,
                                        !.reader = source[1],
                                        !.getBody = IF source[2] THEN NewGetBody(content)
                                                    ELSE NoGetBody]]
    /\ ncalls' = ncalls + 1
    /\ UNCHANGED <<faults, blobs, sessions, nextSession, uploaded>>

NextConcurrent ==
    \E c \in Callers :
        \/ InvokeConcurrently(c)
        \/ InitiateUpload(c)
        \/ UploadChunkedBlob(c)
        \/ completeChunkedUploadBlob(c)
        \/ UploadBlobToArtifactoryStep1(c)
        \/ UploadBlobToArtifactoryStep2(c)
        \/ UploadBlob(c)
        \/ HasBlob(c)
        \/ BlobMetadata(c)
        \/ DownloadBlob(c)
        \/ Finish(c)

SpecConcurrent == Init /\ [][NextConcurrent]_vars

\* No exchange of call c was replayed by the executor.
NoReplay(c) == \A i \in 1..Len(calls[c].reqs) : Len(calls[c].reqs[i].sent) = 1

\* C16: with calls of several callers in progress at once, each on its own
\* repository and digest: every PATCH and PUT of a call targets the session
\* location of that call's own POST, which no other call in progress holds,
\* and every PUT carries the call's own digest; and a call ends as it would
\* alone: against a registry that keeps to the protocol, without replays, an
\* upload succeeds exactly when its digest is that of its content, HasBlob
\* tells whether the blob is in the call's repository, and DownloadBlob
\* returns that blob's bytes.
C16_EachCallAsAlone ==
    \A c \in Callers :
        calls[c].pc # "idle" =>
            /\ \A i \in 2..Len(calls[c].reqs) :
                   /\ Bare(calls[c].reqs[i].url) = Bare(OwnLocation(c))
                   /\ calls[c].reqs[i].url.repo \in {calls[c].repo, ""}
            /\ \A e \in Exchanges(c, "PUT") : e.url.query["digest"] = calls[c].digest
            /\ \A d \in Callers \ {c} :
                   (/\ Len(calls[c].reqs) >= 1
                    /\ Len(calls[d].reqs) >= 1
                    /\ OwnLocation(c).session # 0)
                   => OwnLocation(c) # OwnLocation(d)
            /\ (Finished(c) /\ Conformant(c) /\ NoReplay(c)) =>
                   /\ calls[c].op \in UploadOps =>
                          (Succeeded(c) <=> calls[c].digest = Hash(calls[c].content))
                   /\ calls[c].op = "HasBlob" =>
                          /\ calls[c].result.err = NoErr
                          /\ calls[c].result.ok
                                 <=> Blob(calls[c].repo, calls[c].digest) # {}
                   /\ calls[c].op = "DownloadBlob" =>
                          \A b \in Blob(calls[c].repo, calls[c].digest) :
                              calls[c].result.stream = NewStream(b.data)
\* a's POST, then b's whole upload, with a's PUT still to come
C16_Witness ==
    /\ calls["a"].op = "UploadChunkedBlob"
    /\ calls["a"].pc = "put"
    /\ OwnLocation("a").session = 1
    /\ calls["b"].op \in UploadOps
    /\ Succeeded("b")
    /\ OwnLocation("b").session = 2
    /\ \E e \in Exchanges("b", "PUT") :
           e.url.session = 2 /\ e.url.query["digest"] = Hash(Stock["b"])
====
